---- MODULE Spec2Model ----
\* EC2 launch monitor: tag classification (process_tagged_instances), the daily
\* CSV report merge (store_to_s3_csv) and the pipeline around them
\* (process_ec2_launch_event, handler), modelled from src/lambda/index.py.
\*
\* Text (CSV content, column names, cell values) is modelled as sequences of
\* character codes, so that str.split, str.strip and the csv writer act on the
\* stored bytes the way the Python code does.
EXTENDS Integers, Sequences, FiniteSets, TLC

\* ------------------------------------------------------------------ bounds
\* invocations (pipeline runs or direct store calls) started in one behaviour
MaxInvocations == 2

\* -------------------------------------------------------------- characters
LF == 10
CR == 13
SPACE == 32
QUOTE == 34
COMMA == 44
\* str.strip() with no argument strips whitespace
Whitespace == {9, 10, 11, 12, 13, 32}

\* ---------------------------------------------------------------- literals
\* "availability_zone"
s_availability_zone == <<97, 118, 97, 105, 108, 97, 98, 105, 108, 105, 116, 121, 95, 122, 111, 110, 101>>
\* "instance_id"
s_instance_id == <<105, 110, 115, 116, 97, 110, 99, 101, 95, 105, 100>>
\* "instance_type"
s_instance_type == <<105, 110, 115, 116, 97, 110, 99, 101, 95, 116, 121, 112, 101>>
\* "key_name"
s_key_name == <<107, 101, 121, 95, 110, 97, 109, 101>>
\* "launch_time"
s_launch_time == <<108, 97, 117, 110, 99, 104, 95, 116, 105, 109, 101>>
\* "private_ip"
s_private_ip == <<112, 114, 105, 118, 97, 116, 101, 95, 105, 112>>
\* "processed_at"
s_processed_at == <<112, 114, 111, 99, 101, 115, 115, 101, 100, 95, 97, 116>>
\* "public_ip"
s_public_ip == <<112, 117, 98, 108, 105, 99, 95, 105, 112>>
\* "security_groups"
s_security_groups == <<115, 101, 99, 117, 114, 105, 116, 121, 95, 103, 114, 111, 117, 112, 115>>
\* "state"
s_state == <<115, 116, 97, 116, 101>>
\* "subnet_id"
s_subnet_id == <<115, 117, 98, 110, 101, 116, 95, 105, 100>>
\* "vpc_id"
s_vpc_id == <<118, 112, 99, 95, 105, 100>>
\* "tags" (the nested mapping of instance_details)
s_tags == <<116, 97, 103, 115>>
\* "tag_" (prefix of the flattened tag columns)
s_tag_ == <<116, 97, 103, 95>>
\* "adhoc"
s_adhoc == <<97, 100, 104, 111, 99>>
\* "env"
s_env == <<101, 110, 118>>
\* "true"
s_true == <<116, 114, 117, 101>>
\* "false"
s_false == <<102, 97, 108, 115, 101>>
\* "prod"
s_prod == <<112, 114, 111, 100>>
\* "N/A"
s_NA == <<78, 47, 65>>
\* "Unknown"
s_Unknown == <<85, 110, 107, 110, 111, 119, 110>>
\* ", " (separator of the joined security group names)
s_CommaSpace == <<COMMA, SPACE>>

\* ------------------------------------------------------------ str methods
Min(S) == CHOOSE x \in S : \A y \in S : x <= y
Max(S) == CHOOSE x \in S : \A y \in S : x >= y

\* s.strip() / s.strip(chars)
Strip(s, chars) ==
  LET keep == {i \in 1..Len(s) : s[i] \notin chars}
  IN IF keep = {} THEN <<>> ELSE SubSeq(s, Min(keep), Max(keep))

\* s.rstrip(chars)
RStrip(s, chars) ==
  LET keep == {i \in 1..Len(s) : s[i] \notin chars}
  IN IF keep = {} THEN <<>> ELSE SubSeq(s, 1, Max(keep))

\* s.split(sep) for a one-character separator: always at least one piece
RECURSIVE SplitFrom(_, _, _)
SplitFrom(s, sep, start) ==
  LET later == {i \in start..Len(s) : s[i] = sep}
  IN IF later = {} THEN <<SubSeq(s, start, Len(s))>>
     ELSE <<SubSeq(s, start, Min(later) - 1)>> \o SplitFrom(s, sep, Min(later) + 1)

Split(s, sep) == SplitFrom(s, sep, 1)

\* sep.join(parts)
RECURSIVE Join(_, _)
Join(sep, parts) ==
  IF parts = <<>> THEN <<>>
  ELSE IF Len(parts) = 1 THEN parts[1]
  ELSE parts[1] \o sep \o Join(sep, Tail(parts))

\* a < b for str: lexicographic by code point
StrLess(a, b) ==
  LET differ == {i \in 1..Len(a) : i <= Len(b) /\ a[i] # b[i]}
  IN IF differ = {} THEN Len(a) < Len(b)
     ELSE a[Min(differ)] < b[Min(differ)]

\* list(S): the elements of a set in some order
RECURSIVE ListOf(_)
ListOf(S) ==
  IF S = {} THEN <<>>
  ELSE LET x == CHOOSE y \in S : TRUE IN <<x>> \o ListOf(S \ {x})

\* sorted(list(S)) for a set of str
Sorted(S) == SortSeq(ListOf(S), StrLess)

\* dict.get(key, default); a dict is a function
Get(d, key, default) == IF key \in DOMAIN d THEN d[key] ELSE default

\* ------------------------------------------------------------- csv writer
\* csv.writer with the default (excel) dialect: delimiter ',', quotechar '"',
\* doublequote, QUOTE_MINIMAL, lineterminator '\r\n'.
NeedsQuote(v) == \E i \in 1..Len(v) : v[i] \in {COMMA, QUOTE, CR, LF}

RECURSIVE DoubleQuotes(_)
DoubleQuotes(v) ==
  IF v = <<>> THEN <<>>
  ELSE (IF v[1] = QUOTE THEN <<QUOTE, QUOTE>> ELSE <<v[1]>>) \o DoubleQuotes(Tail(v))

CsvField(v) == IF NeedsQuote(v) THEN <<QUOTE>> \o DoubleQuotes(v) \o <<QUOTE>> ELSE v

LineTerminator == <<CR, LF>>

\* writer.writerow(cells): the text appended to the buffer
CsvLine(cells) ==
  IF Len(cells) = 1 /\ cells[1] = <<>> THEN <<QUOTE, QUOTE>> \o LineTerminator
  ELSE Join(<<COMMA>>, [i \in 1..Len(cells) |-> CsvField(cells[i])]) \o LineTerminator

\* DictWriter.writerow(row): one cell per fieldname, restval '' for a missing key
DictWriterRow(fieldnames, row) ==
  CsvLine([i \in 1..Len(fieldnames) |-> Get(row, fieldnames[i], <<>>)])

\* DictWriter.writeheader()
DictWriterHeader(fieldnames) == CsvLine(fieldnames)

RECURSIVE WriteRows(_, _)
WriteRows(fieldnames, rows) ==
  IF rows = <<>> THEN <<>>
  ELSE DictWriterRow(fieldnames, Head(rows)) \o WriteRows(fieldnames, Tail(rows))

\* ------------------------------------------------------------ more literals
\* "ec2-launch-reports/"
s_reports_prefix == <<101, 99, 50, 45, 108, 97, 117, 110, 99, 104, 45, 114, 101, 112, 111, 114, 116, 115, 47>>
\* "/ec2-instances-"
s_instances_prefix == <<47, 101, 99, 50, 45, 105, 110, 115, 116, 97, 110, 99, 101, 115, 45>>
\* ".csv"
s_csv == <<46, 99, 115, 118>>
\* "None" (str(None))
s_None == <<78, 111, 110, 101>>
\* "unknown"
s_unknown == <<117, 110, 107, 110, 111, 119, 110>>
s_slash == <<47>>
s_dash == <<45>>
s_T == <<84>>
\* Python's None where a str is expected: no character has code -1
NoneVal == <<-1>>
\* the account the identity lookup reports: "21"
s_account == <<50, 49>>
\* instance identifiers "i1" .. "i4"
s_i1 == <<105, 49>>
s_i2 == <<105, 50>>
s_i3 == <<105, 51>>
s_i4 == <<105, 52>>
s_i5 == <<105, 53>>
\* tag keys and values that come close to adhoc=true: "Adhoc", "adho",
\* "adhocs", "True", "tru", "*"
s_Adhoc == <<65, 100, 104, 111, 99>>
s_adho == <<97, 100, 104, 111>>
s_adhocs == <<97, 100, 104, 111, 99, 115>>
s_True == <<84, 114, 117, 101>>
s_tru == <<116, 114, 117>>
s_star == <<42>>
\* security group names "web", "db"
s_web == <<119, 101, 98>>
s_db == <<100, 98>>
\* an instance type, "t3"
s_t3 == <<116, 51>>

\* ------------------------------------------------------------------ dates
\* str(n) for n >= 0
RECURSIVE Decimal(_)
Decimal(n) == IF n < 10 THEN <<48 + n>> ELSE Decimal(n \div 10) \o <<48 + (n % 10)>>

\* f"{n:02d}"
Pad2(n) == IF n < 10 THEN <<48>> \o Decimal(n) ELSE Decimal(n)

\* The calendar of the model: two consecutive days, 2026-11-30 and
\* 2026-12-01, so that the second falls in the next month.
Days == {1, 2}
DateOf(d) ==
  IF d = 1 THEN [year |-> 2026, month |-> 11, day |-> 30]
  ELSE [year |-> 2026, month |-> 12, day |-> d - 1]

\* timestamp.strftime('%Y-%m-%d')
StrfDate(d) ==
  Decimal(DateOf(d).year) \o s_dash \o Pad2(DateOf(d).month) \o s_dash \o Pad2(DateOf(d).day)

\* datetime.isoformat(): the date, 'T', the time of day (abstracted away)
IsoFormat(d) == StrfDate(d) \o s_T

\* f"{v}" for a str or None
Format(v) == IF v = NoneVal THEN s_None ELSE v

\* the daily key of store_to_s3_csv
S3Key(account_id, d) ==
  s_reports_prefix \o Decimal(DateOf(d).year) \o s_slash \o Pad2(DateOf(d).month)
    \o s_instances_prefix \o Format(account_id) \o s_dash \o StrfDate(d) \o s_csv

\* ------------------------------------------------------- the cloud's data
\* Resource descriptions as describe_instances returns them (dicts keyed by
\* the API's field names; fields the code reads with .get may be absent).
Tag(k, v) == [Key |-> k, Value |-> v]
Group(n) == [GroupName |-> n]

\* i1: tagged adhoc=true, no security group
Inst1 ==
  [InstanceId |-> s_i1, InstanceType |-> s_t3, Tags |-> <<Tag(s_adhoc, s_true)>>]
\* i2: adhoc=false, untagged
Inst2 ==
  [InstanceId |-> s_i2, Tags |-> <<Tag(s_adhoc, s_false)>>,
   SecurityGroups |-> <<Group(s_web)>>]
\* i3: tagged adhoc=true and env=prod, two security groups, a launch time
Inst3 ==
  [InstanceId |-> s_i3, LaunchTime |-> 1,
   Tags |-> <<Tag(s_env, s_prod), Tag(s_adhoc, s_true)>>,
   SecurityGroups |-> <<Group(s_web), Group(s_db)>>]
\* i4: tagged adhoc=true, with a security group entry that has no GroupName
Inst4 ==
  [InstanceId |-> s_i4, Tags |-> <<Tag(s_adhoc, s_true)>>,
   SecurityGroups |-> <<[GroupId |-> s_web]>>]
\* i5: no pair adhoc=true, only pairs that differ from it in case, by a
\* prefix, by a suffix, or that are a wildcard
Inst5 ==
  [InstanceId |-> s_i5, InstanceType |-> s_t3,
   Tags |-> <<Tag(s_Adhoc, s_true), Tag(s_adhoc, s_True), Tag(s_adho, s_true),
              Tag(s_adhocs, s_true), Tag(s_adhoc, s_tru), Tag(s_adhoc, s_star),
              Tag(s_star, s_true)>>]

Cloud == {Inst1, Inst2, Inst3, Inst4, Inst5}

\* ---------------------------------------------------- extract_event_details
Stub(id) == [instanceId |-> id]
Envelope(items) ==
  [detail |-> [responseElements |-> [instancesSet |-> [items |-> items]]]]

\* an extraction that returned the identifiers last stub first
ExtractEventDetailsReversed(event) ==
  IF "detail" \notin DOMAIN event THEN <<>>
  ELSE IF "responseElements" \notin DOMAIN event.detail THEN <<>>
  ELSE IF "instancesSet" \notin DOMAIN event.detail.responseElements THEN <<>>
  ELSE IF "items" \notin DOMAIN event.detail.responseElements.instancesSet THEN <<>>
  ELSE LET instances == event.detail.responseElements.instancesSet.items
       IN IF \E i \in 1..Len(instances) : "instanceId" \notin DOMAIN instances[i]
          THEN <<>>
          ELSE [i \in 1..Len(instances) |->
                  instances[Len(instances) + 1 - i].instanceId]

ExtractEventDetails(event) ==
  IF "detail" \notin DOMAIN event THEN <<>>
  ELSE IF "responseElements" \notin DOMAIN event.detail THEN <<>>
  ELSE IF "instancesSet" \notin DOMAIN event.detail.responseElements THEN <<>>
  ELSE IF "items" \notin DOMAIN event.detail.responseElements.instancesSet THEN <<>>
  ELSE LET instances == event.detail.responseElements.instancesSet.items
       IN IF \E i \in 1..Len(instances) : "instanceId" \notin DOMAIN instances[i]
          THEN <<>>
          ELSE [i \in 1..Len(instances) |-> instances[i].instanceId]

\* ------------------------------------------------- process_tagged_instances
tag_key == s_adhoc
tag_value == s_true

EmptyResult ==
  [tagged_instances |-> <<>>,
   summary |-> [total_processed |-> 0, tagged_count |-> 0, untagged_count |-> 0]]

\* any(tag['Key'] == tag_key and tag['Value'] == tag_value for tag in tags):
\* "yes", "no", or "raise" when a subscript it evaluates raises KeyError
RECURSIVE HasRequiredTag(_)
HasRequiredTag(tags) ==
  IF tags = <<>> THEN "no"
  ELSE IF "Key" \notin DOMAIN Head(tags) THEN "raise"
  ELSE IF Head(tags).Key # tag_key THEN HasRequiredTag(Tail(tags))
  ELSE IF "Value" \notin DOMAIN Head(tags) THEN "raise"
  ELSE IF Head(tags).Value = tag_value THEN "yes"
  ELSE HasRequiredTag(Tail(tags))

\* building instance_details raises KeyError: sg['GroupName'], tag['Key'], tag['Value']
DetailsRaise(instance) ==
  LET groups == Get(instance, "SecurityGroups", <<>>)
      tags == Get(instance, "Tags", <<>>)
  IN \/ \E i \in 1..Len(groups) : "GroupName" \notin DOMAIN groups[i]
     \/ \E i \in 1..Len(tags) : {"Key", "Value"} \ DOMAIN tags[i] # {}

\* {tag['Key']: tag['Value'] for tag in tags}: a later pair replaces an earlier one
TagsDict(tags) ==
  [k \in {tags[i].Key : i \in 1..Len(tags)} |->
     tags[Max({i \in 1..Len(tags) : tags[i].Key = k})].Value]

InstanceDetails(instance) ==
  LET groups == Get(instance, "SecurityGroups", <<>>)
  IN (s_instance_id :> instance.InstanceId)
     @@ (s_private_ip :> Get(instance, "PrivateIpAddress", s_NA))
     @@ (s_public_ip :> Get(instance, "PublicIpAddress", s_NA))
     @@ (s_instance_type :> Get(instance, "InstanceType", s_Unknown))
     @@ (s_state :> Get(Get(instance, "State", <<>>), "Name", s_Unknown))
     @@ (s_launch_time :>
           IF "LaunchTime" \in DOMAIN instance THEN IsoFormat(instance.LaunchTime) ELSE s_NA)
     @@ (s_availability_zone :>
           Get(Get(instance, "Placement", <<>>), "AvailabilityZone", s_NA))
     @@ (s_vpc_id :> Get(instance, "VpcId", s_NA))
     @@ (s_subnet_id :> Get(instance, "SubnetId", s_NA))
     @@ (s_security_groups :> [i \in 1..Len(groups) |-> groups[i].GroupName])
     @@ (s_key_name :> Get(instance, "KeyName", s_NA))
     @@ (s_tags :> TagsDict(Get(instance, "Tags", <<>>)))

\* tagged_instances[instance_id] = instance_details, on a dict kept as the
\* sequence of its values in insertion order (a key set again keeps its place)
DictPut(d, details) ==
  IF \E i \in 1..Len(d) : d[i][s_instance_id] = details[s_instance_id]
  THEN [i \in 1..Len(d) |->
          IF d[i][s_instance_id] = details[s_instance_id] THEN details ELSE d[i]]
  ELSE Append(d, details)

\* the loop over the response's instances (all reservations, in order); an
\* exception ends the loop and the handler returns result as it then is
RECURSIVE ClassifyFrom(_, _)
ClassifyFrom(instances, result) ==
  IF instances = <<>> THEN result
  ELSE IF "InstanceId" \notin DOMAIN Head(instances) THEN result
  ELSE
    LET instance == Head(instances)
        counted == [result EXCEPT !.summary.total_processed = @ + 1]
        has_required_tag == HasRequiredTag(Get(instance, "Tags", <<>>))
    IN IF has_required_tag = "raise" THEN counted
       ELSE IF has_required_tag = "no"
       THEN ClassifyFrom(Tail(instances),
                         [counted EXCEPT !.summary.untagged_count = @ + 1])
       ELSE IF DetailsRaise(instance) THEN counted
       ELSE ClassifyFrom(Tail(instances),
                         [counted EXCEPT
                            !.tagged_instances = DictPut(@, InstanceDetails(instance)),
                            !.summary.tagged_count = @ + 1])

\* a lookup failure counted as one untagged resource per identifier
ProcessTaggedInstancesCounting(instance_ids, lookup) ==
  IF instance_ids = <<>> THEN EmptyResult
  ELSE IF ~lookup.ok
    THEN [EmptyResult EXCEPT !.summary.total_processed = Len(instance_ids),
                             !.summary.untagged_count = Len(instance_ids)]
  ELSE ClassifyFrom(lookup.instances, EmptyResult)

\* lookup: the outcome of ec2_client.describe_instances
ProcessTaggedInstances(instance_ids, lookup) ==
  IF instance_ids = <<>> THEN EmptyResult
  ELSE IF ~lookup.ok THEN EmptyResult
  ELSE ClassifyFrom(lookup.instances, EmptyResult)

\* ------------------------------------------------------- store_to_s3_csv
\* a flattening that dropped the tags without giving them columns
FlattenRecordDroppingTags(details, stamp) ==
  LET names == ((DOMAIN details \cup {s_security_groups}) \ {s_tags})
                 \cup {s_processed_at}
  IN [n \in names |->
        IF n = s_processed_at THEN IsoFormat(stamp)
        ELSE IF n = s_security_groups
          THEN Join(s_CommaSpace, Get(details, s_security_groups, <<>>))
        ELSE details[n]]

\* lines 128-142: one flat record per tagged instance; stamp is the clock
\* reading taken for this record
FlattenRecord(details, stamp) ==
  LET tags == Get(details, s_tags, <<>>)
      tagcols == {s_tag_ \o k : k \in DOMAIN tags}
      names == ((DOMAIN details \cup {s_security_groups}) \ {s_tags})
                 \cup tagcols \cup {s_processed_at}
  IN [n \in names |->
        IF n = s_processed_at THEN IsoFormat(stamp)
        ELSE IF n \in tagcols
          THEN tags[CHOOSE k \in DOMAIN tags : s_tag_ \o k = n]
        ELSE IF n = s_security_groups
          THEN Join(s_CommaSpace, Get(details, s_security_groups, <<>>))
        ELSE details[n]]

\* lines 168-174: the names read from the first line of the existing content
ExistingHeaders(existing_csv_content) ==
  LET existing_lines == Split(Strip(existing_csv_content, Whitespace), LF)
      existing_headers == Split(existing_lines[1], COMMA)
  IN {Strip(existing_headers[i], {QUOTE}) : i \in 1..Len(existing_headers)}

\* lines 162-176
Fieldnames(instances_data, file_exists, existing_csv_content) ==
  LET all_fieldnames == UNION {DOMAIN instances_data[i] : i \in 1..Len(instances_data)}
  IN Sorted(IF file_exists /\ existing_csv_content # <<>>
            THEN all_fieldnames \cup ExistingHeaders(existing_csv_content)
            ELSE all_fieldnames)

\* lines 178-191: csv_buffer.getvalue()
CsvBuffer(instances_data, file_exists, existing_csv_content) ==
  LET fieldnames == Fieldnames(instances_data, file_exists, existing_csv_content)
  IN IF file_exists /\ existing_csv_content # <<>>
     THEN RStrip(existing_csv_content, {LF}) \o <<LF>>
            \o WriteRows(fieldnames, instances_data)
     ELSE DictWriterHeader(fieldnames) \o WriteRows(fieldnames, instances_data)

\* ------------------------------------------------------------ convertcsv
\* load_json_file, lines 17-30: the record of one entry of tagged_instances
JsonRecord(instance_details) ==
  LET tags == Get(instance_details, s_tags, <<>>)
      tagcols == {s_tag_ \o k : k \in DOMAIN tags}
      names == ((DOMAIN instance_details \cup {s_security_groups}) \ {s_tags})
                 \cup tagcols
  IN [n \in names |->
        IF n \in tagcols
          THEN tags[CHOOSE k \in DOMAIN tags : s_tag_ \o k = n]
        ELSE IF n = s_security_groups
          THEN Join(s_CommaSpace, Get(instance_details, s_security_groups, <<>>))
        ELSE instance_details[n]]

\* load_json_file, lines 14-35, given the parsed JSON document
LoadJsonFile(data) ==
  IF "tagged_instances" \in DOMAIN data
  THEN [i \in 1..Len(data.tagged_instances) |-> JsonRecord(data.tagged_instances[i])]
  ELSE <<>>

\* ------------------------------------------------------------ environment
\* Event envelopes handed to handler.
Events ==
  << [source |-> "aws.ec2"],
     [detail |-> [eventName |-> "RunInstances"]],
     Envelope(<<[imageId |-> s_t3]>>),
     Envelope(<<>>),
     Envelope(<<Stub(s_i1)>>),
     Envelope(<<Stub(s_i2)>>),
     Envelope(<<Stub(s_i5)>>),
     Envelope(<<Stub(s_i1), Stub(s_i1)>>),
     Envelope(<<Stub(s_i2), Stub(s_i4)>>),
     Envelope(<<Stub(s_i1), Stub(s_i2), Stub(s_i3)>>) >>

\* The descriptions of the identifiers the cloud knows, in request order.
RECURSIVE Describe(_)
Describe(ids) ==
  IF ids = <<>> THEN <<>>
  ELSE LET found == {c \in Cloud : c.InstanceId = Head(ids)}
       IN (IF found = {} THEN <<>> ELSE <<CHOOSE c \in found : TRUE>>)
            \o Describe(Tail(ids))

\* What describe_instances may answer for instance_ids: the descriptions, or
\* an exception.
LookupOutcomes(ids) ==
  {[ok |-> FALSE, instances |-> <<>>], [ok |-> TRUE, instances |-> Describe(ids)]}

\* What sts get_caller_identity may give get_account_id: the account, or None
\* after an exception.
AccountOutcomes == {s_account, NoneVal}

\* response_data of callers that use store_to_s3_csv on its own
DirectInputs ==
  << [status |-> "error", tagged_instances |-> <<>>],
     [status |-> "no_matches", tagged_instances |-> <<InstanceDetails(Inst1)>>],
     [status |-> "success", tagged_instances |-> <<>>],
     [status |-> "success", account_id |-> s_account,
      tagged_instances |-> <<InstanceDetails(Inst1)>>] >>

Procs == {1, 2}

\* ------------------------------------------------------------------ state
VARIABLES
  store,                 \* the bucket: s3 key -> stored content
  now,                   \* the day the clock shows
  started,               \* invocations started so far
  pc,                    \* where each invocation stands
  kind,                  \* "pipeline" (handler) or "direct" (store_to_s3_csv alone)
  event,                 \* handler: the event envelope it was given
  instance_ids,          \* process_ec2_launch_event: the extracted identifiers
  describe_result,       \* how the invocation's describe_instances call ended, "none" before
  response,              \* process_tagged_instances: the instances of the lookup's response
  timestamp,             \* store_to_s3_csv: the day read for the key, 0 before
  response_data,         \* store_to_s3_csv: its argument
  instances_data,        \* store_to_s3_csv: the flattened records
  s3_key,                \* store_to_s3_csv: the daily key
  existing_csv_content,  \* store_to_s3_csv: what the load step read
  file_exists,           \* store_to_s3_csv: whether the load step found the object
  get_result,            \* how the invocation's get_object call ended, "none" before
  put_result,            \* how the invocation's put_object call ended, "none" before
  out                    \* what the invocation returned

\* The state of one EC2APIHandler (ec2_helper.py) and of its caller.
VARIABLES
  instance_data,         \* self.instance_data: None, or which data it holds
  token,                 \* self.token
  registration_id,       \* self.registration_id
  registration_response, \* self.registration_response
  calls,                 \* calls made to the handler's methods so far
  requests,              \* HTTP requests the handler has issued so far
  last,                  \* the last method run: its name, result, whether it issued a request
  wpc,                   \* process_instance_registration: the step it is to run next
  wlog,                  \* process_instance_registration: the methods it ran, with results
  wresult                \* process_instance_registration: what it returned

api_vars ==
  <<instance_data, token, registration_id, registration_response, calls,
    requests, last, wpc, wlog, wresult>>

vars ==
  <<store, now, started, pc, kind, event, instance_ids, describe_result, response,
    timestamp, response_data, instances_data, s3_key, existing_csv_content,
    file_exists, get_result, put_result, out>>

all_vars == <<vars, api_vars>>

NoOut == [kind |-> "none"]

Init ==
  /\ store = <<>>
  /\ now = 1
  /\ started = 0
  /\ pc = [p \in Procs |-> "idle"]
  /\ kind = [p \in Procs |-> "none"]
  /\ event = [p \in Procs |-> <<>>]
  /\ instance_ids = [p \in Procs |-> <<>>]
  /\ describe_result = [p \in Procs |-> "none"]
  /\ response = [p \in Procs |-> <<>>]
  /\ timestamp = [p \in Procs |-> 0]
  /\ response_data = [p \in Procs |-> <<>>]
  /\ instances_data = [p \in Procs |-> <<>>]
  /\ s3_key = [p \in Procs |-> <<>>]
  /\ existing_csv_content = [p \in Procs |-> <<>>]
  /\ file_exists = [p \in Procs |-> FALSE]
  /\ get_result = [p \in Procs |-> "none"]
  /\ put_result = [p \in Procs |-> "none"]
  /\ out = [p \in Procs |-> NoOut]
  /\ instance_data = NoneVal
  /\ token = NoneVal
  /\ registration_id = NoneVal
  /\ registration_response = NoneVal
  /\ calls = 0
  /\ requests = 0
  /\ last = [method |-> "none", requested |-> FALSE, ok |-> FALSE, value |-> NoneVal]
  /\ wpc = "idle"
  /\ wlog = <<>>
  /\ wresult = [returned |-> FALSE, value |-> NoneVal]

\* ---------------------------------------------------------------- handler
\* a map that lacked the entry for no_matches
status_code_map_partial == [success |-> 200, error |-> 400]

status_code_map == [success |-> 200, error |-> 400, no_matches |-> 404]

\* a handler that fell back to 200 for a status the map lacks
HandlerResponseLenient(result) ==
  [kind |-> "pipeline",
   statusCode |-> Get(status_code_map, result.status, 200),
   body |-> result]

\* handler, lines 289-303, given the result of process_ec2_launch_event
HandlerResponse(result) ==
  [kind |-> "pipeline",
   statusCode |-> Get(status_code_map, result.status, 500),
   body |-> result]

\* a caller that recorded the location whatever store_to_s3_csv returned
WithReportAlways(rd, returned) ==
  [k \in DOMAIN rd \cup {"s3_report"} |->
     IF k = "s3_report" THEN returned ELSE rd[k]]

\* process_ec2_launch_event, lines 270-274, given what store_to_s3_csv returned
WithReport(rd, returned) ==
  IF returned # NoneVal /\ returned # <<>>
  THEN [k \in DOMAIN rd \cup {"s3_report"} |->
          IF k = "s3_report" THEN returned ELSE rd[k]]
  ELSE rd

\* what an invocation of the given kind returns once store_to_s3_csv has
\* returned
Returned(knd, rd, returned) ==
  IF knd = "direct" THEN [kind |-> "direct", returned |-> returned]
  ELSE HandlerResponse(WithReport(rd, returned))

\* the clock readings of one store_to_s3_csv call: one per record (line 140)
\* and one for the key (line 145), none earlier than the one before
ClockReadings(n) ==
  {r \in [1..(n + 1) -> {d \in Days : d >= now}] : \A i \in 1..n : r[i] <= r[i + 1]}

\* a guard that looked at the status alone
SkipsOnlyOnStatus(rd) == rd.status # "success"

\* store_to_s3_csv, lines 116-123: the call returns None at once
Skips(rd) == rd.status # "success" \/ rd.tagged_instances = <<>>

\* store_to_s3_csv, lines 116-147: up to the get_object call
StoreEnter(p, knd, rd) ==
  /\ response_data' = [response_data EXCEPT ![p] = rd]
  /\ get_result' = [get_result EXCEPT ![p] = "none"]
  /\ put_result' = [put_result EXCEPT ![p] = "none"]
  /\ existing_csv_content' = [existing_csv_content EXCEPT ![p] = <<>>]
  /\ file_exists' = [file_exists EXCEPT ![p] = FALSE]
  /\ UNCHANGED store
  /\ IF Skips(rd)
     THEN /\ pc' = [pc EXCEPT ![p] = "done"]
          /\ out' = [out EXCEPT ![p] = Returned(knd, rd, NoneVal)]
          /\ instances_data' = [instances_data EXCEPT ![p] = <<>>]
          /\ s3_key' = [s3_key EXCEPT ![p] = <<>>]
          /\ timestamp' = [timestamp EXCEPT ![p] = 0]
          /\ UNCHANGED now
     ELSE \E r \in ClockReadings(Len(rd.tagged_instances)) :
          LET n == Len(rd.tagged_instances)
          IN /\ instances_data' =
                  [instances_data EXCEPT ![p] =
                     [i \in 1..n |-> FlattenRecord(rd.tagged_instances[i], r[i])]]
             /\ s3_key' = [s3_key EXCEPT ![p] =
                              S3Key(Get(rd, "account_id", s_unknown), r[n + 1])]
             /\ timestamp' = [timestamp EXCEPT ![p] = r[n + 1]]
             /\ now' = r[n + 1]
             /\ pc' = [pc EXCEPT ![p] = "load"]
             /\ out' = [out EXCEPT ![p] = NoOut]

\* An invocation runs in the lowest-numbered execution environment that is
\* free, so the second one is used only while the first is busy.
Free(p) == pc[p] \in {"idle", "done"}
CanStart(p) ==
  /\ Free(p)
  /\ started < MaxInvocations
  /\ \A q \in Procs : q < p => ~Free(q)

\* an outcome rule that asked for more than one tagged instance
ClassificationAboveOne(ids, tagged_count) ==
  IF ids = <<>> THEN "error"
  ELSE IF tagged_count <= 1 THEN "no_matches"
  ELSE "success"

\* process_ec2_launch_event, lines 230 and 246: the outcome of the invocation
Classification(ids, tagged_count) ==
  IF ids = <<>> THEN "error"
  ELSE IF tagged_count = 0 THEN "no_matches"
  ELSE "success"

\* an early return that left an empty report of the day behind
ReturnEarlyTouching(p, result) ==
  /\ out' = [out EXCEPT ![p] = HandlerResponse(result)]
  /\ pc' = [pc EXCEPT ![p] = "done"]
  /\ response_data' = [response_data EXCEPT ![p] = <<>>]
  /\ instances_data' = [instances_data EXCEPT ![p] = <<>>]
  /\ s3_key' = [s3_key EXCEPT ![p] = <<>>]
  /\ timestamp' = [timestamp EXCEPT ![p] = 0]
  /\ existing_csv_content' = [existing_csv_content EXCEPT ![p] = <<>>]
  /\ file_exists' = [file_exists EXCEPT ![p] = FALSE]
  /\ get_result' = [get_result EXCEPT ![p] = "none"]
  /\ put_result' = [put_result EXCEPT ![p] = "none"]
  /\ store' = (S3Key(s_unknown, now) :> <<>>) @@ store
  /\ UNCHANGED now

\* process_ec2_launch_event, lines 232-238 and 248-253: return without
\* calling store_to_s3_csv
ReturnEarly(p, result) ==
  /\ out' = [out EXCEPT ![p] = HandlerResponse(result)]
  /\ pc' = [pc EXCEPT ![p] = "done"]
  /\ response_data' = [response_data EXCEPT ![p] = <<>>]
  /\ instances_data' = [instances_data EXCEPT ![p] = <<>>]
  /\ s3_key' = [s3_key EXCEPT ![p] = <<>>]
  /\ timestamp' = [timestamp EXCEPT ![p] = 0]
  /\ existing_csv_content' = [existing_csv_content EXCEPT ![p] = <<>>]
  /\ file_exists' = [file_exists EXCEPT ![p] = FALSE]
  /\ get_result' = [get_result EXCEPT ![p] = "none"]
  /\ put_result' = [put_result EXCEPT ![p] = "none"]
  /\ UNCHANGED <<store, now>>

\* handler -> process_ec2_launch_event, lines 226-270, for one event
Invoke(p) ==
  /\ CanStart(p)
  /\ UNCHANGED api_vars
  /\ started' = started + 1
  /\ kind' = [kind EXCEPT ![p] = "pipeline"]
  /\ \E e \in 1..Len(Events) :
       LET ids == ExtractEventDetails(Events[e])
       IN /\ event' = [event EXCEPT ![p] = Events[e]]
          /\ instance_ids' = [instance_ids EXCEPT ![p] = ids]
          /\ \E lookup \in LookupOutcomes(ids) :
               LET processing_result == ProcessTaggedInstances(ids, lookup)
                   outcome ==
                     Classification(ids, processing_result.summary.tagged_count)
               IN /\ describe_result' =
                       [describe_result EXCEPT ![p] =
                          IF ids = <<>> THEN "none"
                          ELSE IF lookup.ok THEN "ok" ELSE "error"]
                  /\ response' =
                       [response EXCEPT ![p] =
                          IF ids = <<>> THEN <<>> ELSE lookup.instances]
                  /\ CASE outcome = "error" ->
                         ReturnEarly(p,
                           [status |-> "error",
                            error |-> "No instance IDs found in event",
                            instance_ids |-> <<>>,
                            tagged_instances |-> <<>>,
                            summary |-> [total_processed |-> 0, tagged_count |-> 0,
                                         untagged_count |-> 0]])
                    [] outcome = "no_matches" ->
                         ReturnEarly(p,
                           [status |-> "no_matches",
                            error |-> "No instances found with required adhoc=true tag",
                            summary |-> processing_result.summary,
                            tagged_instances |-> <<>>])
                    [] OTHER ->
                         \E account_id \in AccountOutcomes :
                           StoreEnter(p, "pipeline",
                             [status |-> "success",
                              message |-> <<processing_result.summary.total_processed,
                                            processing_result.summary.tagged_count>>,
                              account_id |-> account_id,
                              summary |-> processing_result.summary,
                              tagged_instances |-> processing_result.tagged_instances])

\* a caller other than the pipeline calls store_to_s3_csv(response_data)
DirectStore(p) ==
  /\ CanStart(p)
  /\ UNCHANGED api_vars
  /\ started' = started + 1
  /\ kind' = [kind EXCEPT ![p] = "direct"]
  /\ event' = [event EXCEPT ![p] = <<>>]
  /\ instance_ids' = [instance_ids EXCEPT ![p] = <<>>]
  /\ describe_result' = [describe_result EXCEPT ![p] = "none"]
  /\ response' = [response EXCEPT ![p] = <<>>]
  /\ \E d \in 1..Len(DirectInputs) : StoreEnter(p, "direct", DirectInputs[d])

\* lines 150-160: the load step ends with content and file_exists set
LoadEnds(p, content, exists, how) ==
  /\ existing_csv_content' = [existing_csv_content EXCEPT ![p] = content]
  /\ file_exists' = [file_exists EXCEPT ![p] = exists]
  /\ get_result' = [get_result EXCEPT ![p] = how]
  /\ pc' = [pc EXCEPT ![p] = "write"]
  /\ UNCHANGED api_vars
  /\ UNCHANGED <<store, now, started, kind, event, instance_ids,
                 describe_result, response, timestamp, response_data,
                 instances_data, s3_key, put_result, out>>

\* get_object returns the stored object (lines 153-156)
LoadFound(p) ==
  /\ pc[p] = "load"
  /\ s3_key[p] \in DOMAIN store
  /\ LoadEnds(p, store[s3_key[p]], TRUE, "found")

\* a load step that created an empty object where it found none
LoadNoSuchKeyCreating(p) ==
  /\ pc[p] = "load"
  /\ s3_key[p] \notin DOMAIN store
  /\ store' = (s3_key[p] :> <<>>) @@ store
  /\ existing_csv_content' = [existing_csv_content EXCEPT ![p] = <<>>]
  /\ file_exists' = [file_exists EXCEPT ![p] = FALSE]
  /\ get_result' = [get_result EXCEPT ![p] = "no_such_key"]
  /\ pc' = [pc EXCEPT ![p] = "write"]
  /\ UNCHANGED api_vars
  /\ UNCHANGED <<now, started, kind, event, instance_ids, describe_result,
                 response, timestamp, response_data, instances_data, s3_key,
                 put_result, out>>

\* get_object raises NoSuchKey (lines 157-158)
LoadNoSuchKey(p) ==
  /\ pc[p] = "load"
  /\ s3_key[p] \notin DOMAIN store
  /\ LoadEnds(p, <<>>, FALSE, "no_such_key")

\* get_object, or reading and decoding the body, raises anything else
\* (lines 159-160)
LoadError(p) ==
  /\ pc[p] = "load"
  /\ LoadEnds(p, <<>>, FALSE, "error")

\* a write that merged into what the store holds when it is issued, not into
\* what the load step read
WriteOkMerging(p) ==
  /\ pc[p] = "write"
  /\ store' = (s3_key[p] :>
                 CsvBuffer(instances_data[p], s3_key[p] \in DOMAIN store,
                           IF s3_key[p] \in DOMAIN store THEN store[s3_key[p]]
                           ELSE <<>>)) @@ store
  /\ put_result' = [put_result EXCEPT ![p] = "ok"]
  /\ pc' = [pc EXCEPT ![p] = "done"]
  /\ out' = [out EXCEPT ![p] = Returned(kind[p], response_data[p], s3_key[p])]
  /\ UNCHANGED api_vars
  /\ UNCHANGED <<now, started, kind, event, instance_ids,
                 describe_result, response, timestamp, response_data, instances_data,
                 s3_key, existing_csv_content, file_exists, get_result>>

\* lines 162-209: put_object is acknowledged and the key is returned
WriteOk(p) ==
  /\ pc[p] = "write"
  /\ store' = (s3_key[p] :> CsvBuffer(instances_data[p], file_exists[p],
                                      existing_csv_content[p])) @@ store
  /\ put_result' = [put_result EXCEPT ![p] = "ok"]
  /\ pc' = [pc EXCEPT ![p] = "done"]
  /\ out' = [out EXCEPT ![p] = Returned(kind[p], response_data[p], s3_key[p])]
  /\ UNCHANGED api_vars
  /\ UNCHANGED <<now, started, kind, event, instance_ids,
                 describe_result, response, timestamp, response_data, instances_data,
                 s3_key, existing_csv_content, file_exists, get_result>>

\* a failed write that left a truncated object behind
WriteFailsTorn(p) ==
  /\ pc[p] = "write"
  /\ store' = (s3_key[p] :> <<>>) @@ store
  /\ put_result' = [put_result EXCEPT ![p] = "error"]
  /\ pc' = [pc EXCEPT ![p] = "done"]
  /\ out' = [out EXCEPT ![p] = Returned(kind[p], response_data[p], NoneVal)]
  /\ UNCHANGED api_vars
  /\ UNCHANGED <<now, started, kind, event, instance_ids,
                 describe_result, response, timestamp, response_data, instances_data,
                 s3_key, existing_csv_content, file_exists, get_result>>

\* lines 162-205 and 211-213: put_object raises and None is returned
WriteFails(p) ==
  /\ pc[p] = "write"
  /\ put_result' = [put_result EXCEPT ![p] = "error"]
  /\ pc' = [pc EXCEPT ![p] = "done"]
  /\ out' = [out EXCEPT ![p] = Returned(kind[p], response_data[p], NoneVal)]
  /\ UNCHANGED api_vars
  /\ UNCHANGED <<store, now, started, kind, event, instance_ids,
                 describe_result, response, timestamp, response_data,
                 instances_data, s3_key, existing_csv_content, file_exists,
                 get_result>>

Step(p) ==
  \/ Invoke(p)
  \/ DirectStore(p)
  \/ LoadFound(p)
  \/ LoadNoSuchKey(p)
  \/ LoadError(p)
  \/ WriteOk(p)
  \/ WriteFails(p)

Next == Step(1)

\* one invocation at a time, with every fault of the store
Spec == Init /\ [][Next]_all_vars

\* the steps of an invocation when the store does not fail
FaultFree(p) ==
  \/ Invoke(p)
  \/ LoadFound(p)
  \/ LoadNoSuchKey(p)
  \/ WriteOk(p)

NextRace == \E p \in Procs : FaultFree(p)

\* invocations may overlap; the store does not fail
SpecRace == Init /\ [][NextRace]_all_vars

\* ------------------------------------------------ the registration handler
\* EC2APIHandler of ec2_helper.py: one handler object, its four methods called
\* one at a time in any order, and process_instance_registration, which runs
\* them in sequence.  A dictionary is written as the tuple of its values, a
\* one-key dictionary as the pair of its key and value.

\* calls made to the handler
MaxCalls == 3

s_t1 == <<116, 49>>
s_r1 == <<114, 49>>
s_registered == <<114, 101, 103, 105, 115, 116, 101, 114, 101, 100>>
s_status == <<115, 116, 97, 116, 117, 115>>
s_registration_id == <<114, 101, 103, 105, 115, 116, 114, 97, 116, 105, 111, 110, 95, 105, 100>>
s_mock_ip == <<49, 57, 50, 46, 49, 54, 56, 46, 49, 46, 49, 48, 48>>
s_mock_dns_head == <<105, 112, 45, 49, 57, 50, 45, 49, 54, 56, 45, 49, 45, 49, 48, 48, 46>>
s_mock_dns_tail == <<46, 101, 99, 50, 46, 105, 110, 116, 101, 114, 110, 97, 108>>
s_running == <<114, 117, 110, 110, 105, 110, 103>>
s_t3_micro == <<116, 51, 46, 109, 105, 99, 114, 111>>
s_ip1 == <<51, 46, 51, 46, 51, 46, 51>>
s_dns1 == <<105, 112, 45, 49>>
s_ip2 == <<49, 48, 46, 48, 46, 48, 46, 49>>

\* Python's truth of a value: None and the empty text are false
Truthy(v) == v # NoneVal /\ v # <<>>

\* what describe_instances answers: the instance with or without a public
\* address, or nothing usable (no reservation, a missing field, an exception)
DescribeReplies == {"public", "private", "error"}

\* what the registration service answers: the call raises, or a response with
\* a status code whose body holds the awaited key (has) with a value, or not
Reply(raised, status_code, has, value) ==
  [raised |-> raised, status_code |-> status_code, has |-> has, value |-> value]

Replies(values) ==
  {Reply(TRUE, 0, FALSE, NoneVal), Reply(FALSE, 500, FALSE, NoneVal),
   Reply(FALSE, 200, FALSE, NoneVal)}
    \cup {Reply(FALSE, 200, TRUE, v) : v \in values}

\* the token of a /register body, the registration_id of a /submit-instance
\* body, the status of a /status body: null, empty, or a text
RegisterReplies == Replies({NoneVal, <<>>, s_t1})
SubmitReplies == Replies({NoneVal, <<>>, s_r1})
StatusReplies == Replies({NoneVal, s_registered})

\* lines 20-24: the fields of a handler
Self ==
  [instance_data |-> instance_data, token |-> token,
   registration_id |-> registration_id,
   registration_response |-> registration_response]

\* what running a method comes to: the handler's fields after it, whether it
\* issued an HTTP request, the truth of what it returned, and what it returned
\* when that is not a boolean
Outcome(self, requested, ok, value) ==
  [self |-> self, requested |-> requested, ok |-> ok, value |-> value]

\* lines 26-62: the instance's data, or the mock data on any exception; the
\* data is stored and returned either way (instance_id, ip_address,
\* private_dns, private_ip, state, instance_type)
fetch_instance_details(self, reply) ==
  LET data ==
        IF reply = "error"
        THEN <<s_i1, s_mock_ip, s_mock_dns_head \o s_i1 \o s_mock_dns_tail,
               s_mock_ip, s_running, s_t3_micro>>
        ELSE <<s_i1, IF reply = "public" THEN s_ip1 ELSE s_NA, s_dns1, s_ip2,
               s_running, s_t3>>
  IN Outcome([self EXCEPT !.instance_data = data], FALSE, TRUE, data)

\* lines 110-150: the credentials never fail (get_secrets falls back to the
\* demo pair), so /register is always posted; on a 200 the body's token is
\* stored (141) before its first characters are printed (142), which raises
\* on a null token; every exception and every other status code is False
get_token(self, reply) ==
  IF reply.raised \/ reply.status_code # 200 \/ ~reply.has
  THEN Outcome(self, TRUE, FALSE, NoneVal)
  ELSE Outcome([self EXCEPT !.token = reply.value], TRUE,
               reply.value # NoneVal, NoneVal)

\* lines 152-190: False without a token or instance data, before any request;
\* else /submit-instance is posted and on a 200 the body's registration_id
\* and the body are stored
send_payload(self, reply) ==
  IF ~Truthy(self.token) \/ ~Truthy(self.instance_data)
  THEN Outcome(self, FALSE, FALSE, NoneVal)
  ELSE IF reply.raised \/ reply.status_code # 200 \/ ~reply.has
  THEN Outcome(self, TRUE, FALSE, NoneVal)
  ELSE Outcome([self EXCEPT !.registration_id = reply.value,
                            !.registration_response =
                               <<s_registration_id, reply.value>>],
               TRUE, TRUE, NoneVal)

\* lines 192-225: None without a token or a registration_id, before any
\* request; else /status/<registration_id> is fetched and on a 200 with a
\* status the body is returned
get_status(self, reply) ==
  IF ~Truthy(self.token) \/ ~Truthy(self.registration_id)
  THEN Outcome(self, FALSE, FALSE, NoneVal)
  ELSE IF reply.raised \/ reply.status_code # 200 \/ ~reply.has
  THEN Outcome(self, TRUE, FALSE, NoneVal)
  ELSE Outcome(self, TRUE, TRUE, <<s_status, reply.value>>)

\* the handler after a method ran, and the record of that run
Ran(method, r) ==
  /\ instance_data' = r.self.instance_data
  /\ token' = r.self.token
  /\ registration_id' = r.self.registration_id
  /\ registration_response' = r.self.registration_response
  /\ requests' = requests + (IF r.requested THEN 1 ELSE 0)
  /\ last' = [method |-> method, requested |-> r.requested, ok |-> r.ok,
              value |-> r.value]

\* a caller may call a method when no call is in progress
MayCall == wpc = "idle" /\ calls < MaxCalls

\* a direct call of a method: it is one more call, and no workflow moves
Called(method, r) ==
  /\ Ran(method, r)
  /\ calls' = calls + 1
  /\ UNCHANGED <<wpc, wlog, wresult>>
  /\ UNCHANGED vars

FetchInstanceDetails ==
  /\ MayCall
  /\ \E reply \in DescribeReplies :
       Called("fetch_instance_details", fetch_instance_details(Self, reply))

GetToken ==
  /\ MayCall
  /\ \E reply \in RegisterReplies : Called("get_token", get_token(Self, reply))

SendPayload ==
  /\ MayCall
  /\ \E reply \in SubmitReplies : Called("send_payload", send_payload(Self, reply))

GetStatus ==
  /\ MayCall
  /\ \E reply \in StatusReplies : Called("get_status", get_status(Self, reply))

\* a step of process_instance_registration: the method it ran, where it goes
\* next, and what it returns if it returns here
Stepped(method, r, next, returns) ==
  /\ Ran(method, r)
  /\ wlog' = Append(wlog, [method |-> method, ok |-> r.ok])
  /\ wpc' = next
  /\ wresult' = returns
  /\ UNCHANGED calls
  /\ UNCHANGED vars

NotReturned == [returned |-> FALSE, value |-> NoneVal]
Returns(value) == [returned |-> TRUE, value |-> value]

\* lines 235-238: the workflow starts by fetching the instance's details
RegistrationFetches ==
  /\ MayCall
  /\ \E reply \in DescribeReplies :
       /\ Ran("fetch_instance_details", fetch_instance_details(Self, reply))
       /\ wlog' = <<[method |-> "fetch_instance_details", ok |-> TRUE]>>
  /\ wpc' = "get_token"
  /\ wresult' = NotReturned
  /\ calls' = calls + 1
  /\ UNCHANGED vars

\* a workflow that goes on to send_payload whatever get_token returned
RegistrationGetsTokenRegardless ==
  /\ wpc = "get_token"
  /\ \E reply \in RegisterReplies :
       Stepped("get_token", get_token(Self, reply), "send_payload", NotReturned)

\* lines 240-242: get_token, and None if it returned False
RegistrationGetsToken ==
  /\ wpc = "get_token"
  /\ \E reply \in RegisterReplies :
       LET r == get_token(Self, reply)
       IN IF r.ok THEN Stepped("get_token", r, "send_payload", NotReturned)
          ELSE Stepped("get_token", r, "idle", Returns(NoneVal))

\* lines 244-246: send_payload, and None if it returned False
RegistrationSendsPayload ==
  /\ wpc = "send_payload"
  /\ \E reply \in SubmitReplies :
       LET r == send_payload(Self, reply)
       IN IF r.ok THEN Stepped("send_payload", r, "get_status", NotReturned)
          ELSE Stepped("send_payload", r, "idle", Returns(NoneVal))

\* lines 248-249: get_status, whose result is the workflow's
RegistrationGetsStatus ==
  /\ wpc = "get_status"
  /\ \E reply \in StatusReplies :
       LET r == get_status(Self, reply)
       IN Stepped("get_status", r, "idle", Returns(r.value))

process_instance_registration ==
  \/ RegistrationFetches
  \/ RegistrationGetsToken
  \/ RegistrationSendsPayload
  \/ RegistrationGetsStatus

NextApi ==
  \/ FetchInstanceDetails
  \/ GetToken
  \/ SendPayload
  \/ GetStatus
  \/ process_instance_registration

\* one handler, used by one caller
SpecApi == Init /\ [][NextApi]_all_vars

\* ------------------------------------------------- reading an artifact back
\* What a csv reader makes of stored text: records end at a line feed outside
\* quotes, cells at a comma outside quotes, and a quoted cell stands for its
\* content with doubled quotes undone.
QuotePositions(s) == {i \in 1..Len(s) : s[i] = QUOTE}

OutsideQuotes(s, sep) ==
  LET quotes == QuotePositions(s)
  IN {i \in 1..Len(s) :
        s[i] = sep /\ Cardinality({j \in quotes : j < i}) % 2 = 0}

RECURSIVE PiecesFrom(_, _, _)
PiecesFrom(s, cuts, start) ==
  IF cuts = {} THEN <<SubSeq(s, start, Len(s))>>
  ELSE LET c == Min(cuts)
       IN <<SubSeq(s, start, c - 1)>> \o PiecesFrom(s, cuts \ {c}, c + 1)

RECURSIVE Undouble(_)
Undouble(v) ==
  IF Len(v) < 2 THEN v
  ELSE IF v[1] = QUOTE /\ v[2] = QUOTE THEN <<QUOTE>> \o Undouble(SubSeq(v, 3, Len(v)))
  ELSE <<v[1]>> \o Undouble(Tail(v))

Cell(text) ==
  IF Len(text) >= 2 /\ text[1] = QUOTE /\ text[Len(text)] = QUOTE
  THEN Undouble(SubSeq(text, 2, Len(text) - 1))
  ELSE text

RecordOf(line) ==
  LET text == IF line # <<>> /\ line[Len(line)] = CR
              THEN SubSeq(line, 1, Len(line) - 1) ELSE line
      cells == PiecesFrom(text, OutsideQuotes(text, COMMA), 1)
  IN [i \in 1..Len(cells) |-> Cell(cells[i])]

\* the records of the text: the header first, then the rows
Records(text) ==
  LET lines == PiecesFrom(text, OutsideQuotes(text, LF), 1)
      whole == IF lines[Len(lines)] = <<>> THEN SubSeq(lines, 1, Len(lines) - 1)
               ELSE lines
  IN [i \in 1..Len(whole) |-> RecordOf(whole[i])]

HeaderOf(text) == IF Records(text) = <<>> THEN <<>> ELSE Records(text)[1]
RowsOf(text) == IF Records(text) = <<>> THEN <<>> ELSE Tail(Records(text))
Range(f) == {f[i] : i \in DOMAIN f}

\* the location an invocation returned (None when it returned none)
LocationIn(o) ==
  IF o.kind = "direct" THEN o.returned
  ELSE IF o.kind = "pipeline" THEN Get(o.body, "s3_report", NoneVal)
  ELSE NoneVal

\* p's put_object is acknowledged in this step
Merges(p) == pc[p] = "write" /\ put_result'[p] = "ok"

\* the field names of a batch of flattened records
BatchFields(rows) == UNION {DOMAIN rows[i] : i \in 1..Len(rows)}

\* ------------------------------------------------------------------ claims
\* C1: after any sequence of merges every stored row is rendered against the
\* artifact's header: one value per header column, in header order, empty
\* where the row lacks the column (here: every row has as many cells as the
\* header, and the rows a merge has just written hold, column by column, the
\* record's value for the header's column name).
C1_RowsRenderedAgainstHeader ==
  /\ \A k \in DOMAIN store :
       \A i \in 1..Len(RowsOf(store[k])) :
         Len(RowsOf(store[k])[i]) = Len(HeaderOf(store[k]))
  /\ \A p \in Procs :
       (pc[p] = "done" /\ put_result[p] = "ok") =>
         LET header == HeaderOf(store[s3_key[p]])
             rows == RowsOf(store[s3_key[p]])
             n == Len(instances_data[p])
         IN \A i \in 1..n :
              rows[Len(rows) - n + i] =
                [j \in 1..Len(header) |-> Get(instances_data[p][i], header[j], <<>>)]

\* C2: after every successful merge the stored header is the sorted union of
\* the batch's field names, processed_at, and the columns of the header stored
\* before the merge.
C2_HeaderIsSortedUnion ==
  [][\A p \in Procs :
       Merges(p) =>
         HeaderOf(store'[s3_key[p]]) =
           Sorted(BatchFields(instances_data[p]) \cup {s_processed_at}
                  \cup (IF s3_key[p] \in DOMAIN store
                        THEN Range(HeaderOf(store[s3_key[p]])) ELSE {}))]_vars

\* C3: a successful merge into an existing artifact leaves the stored rows as
\* the previous rows, in their order, followed by one row per record of the
\* batch, in batch order; no stored row is removed or reordered.
C3_AppendOnly ==
  [][\A p \in Procs :
       (Merges(p) /\ s3_key[p] \in DOMAIN store) =>
         LET old == RowsOf(store[s3_key[p]])
             new == RowsOf(store'[s3_key[p]])
             n == Len(instances_data[p])
         IN /\ Len(new) = Len(old) + n
            /\ SubSeq(new, 1, Len(old)) = old
            /\ \A i \in 1..n :
                 instances_data[p][i][s_instance_id] \in Range(new[Len(old) + i])]_vars

\* C4: when loading the existing artifact fails with an error other than
\* not-found, the merge is abandoned: no write is issued and no location is
\* returned.
C4_AbandonOnReadError ==
  \A p \in Procs :
    get_result[p] = "error" =>
      /\ put_result[p] = "none"
      /\ pc[p] = "done" => LocationIn(out[p]) = NoneVal

\* C5: when the write step fails, no location is returned and the artifact
\* reads back as it did before the merge: the store is untouched, an artifact
\* the load step found still has the content it read, and one it found absent
\* is still absent.
C5_WriteFailurePreservesArtifact ==
  [][\A p \in Procs :
       (pc[p] = "write" /\ put_result'[p] = "error") =>
         /\ store' = store
         /\ pc'[p] = "done"
         /\ LocationIn(out'[p]) = NoneVal
         /\ get_result[p] = "found" =>
              store'[s3_key[p]] = existing_csv_content[p]
         /\ get_result[p] = "no_such_key" => s3_key[p] \notin DOMAIN store']_vars

\* a failed write into an artifact that existed, which still reads as loaded
C5_Witness ==
  \E p \in Procs :
    /\ pc[p] = "done" /\ put_result[p] = "error" /\ get_result[p] = "found"
    /\ existing_csv_content[p] # <<>>
    /\ store[s3_key[p]] = existing_csv_content[p]

\* response_data carries nothing to merge
NoRows(rd) == rd.status # "success" \/ rd.tagged_instances = <<>>

\* C6: a call with no tagged rows, or with a status other than success, is a
\* no-op: no read, no write, the store unchanged, no location returned.
C6_NoRowsIsNoOp ==
  [][\A p \in Procs :
       (started' = started + 1 /\ response_data'[p] # <<>>
          /\ NoRows(response_data'[p])) =>
         /\ pc'[p] = "done"
         /\ get_result'[p] = "none"
         /\ put_result'[p] = "none"
         /\ store' = store
         /\ LocationIn(out'[p]) = NoneVal]_vars

\* a no-op call made while an artifact is stored
C6_Witness ==
  \E p \in Procs :
    /\ kind[p] = "direct" /\ pc[p] = "done"
    /\ response_data[p] # <<>> /\ NoRows(response_data[p])
    /\ get_result[p] = "none" /\ put_result[p] = "none"
    /\ store # <<>>

\* p and q both loaded the same content of one artifact and both had their
\* write acknowledged: both loaded before either wrote
Raced(p, q) ==
  /\ p # q
  /\ pc[p] = "done" /\ pc[q] = "done"
  /\ put_result[p] = "ok" /\ put_result[q] = "ok"
  /\ s3_key[p] = s3_key[q]
  /\ get_result[p] = get_result[q]
  /\ existing_csv_content[p] = existing_csv_content[q]

\* C7: two invocations that both load one artifact before either writes both
\* report success, and the artifact then holds the rows of only one of the
\* two batches.
C7_LastWriterWins ==
  \A p, q \in Procs :
    Raced(p, q) =>
      /\ LocationIn(out[p]) = s3_key[p]
      /\ LocationIn(out[q]) = s3_key[p]
      /\ \E w \in {p, q} :
           Len(RowsOf(store[s3_key[p]])) =
             Len(RowsOf(existing_csv_content[p])) + Len(instances_data[w])

\* a race after which rows of one batch are missing
C7_Witness ==
  \E p, q \in Procs :
    /\ Raced(p, q)
    /\ LocationIn(out[p]) = s3_key[p] /\ LocationIn(out[q]) = s3_key[p]
    /\ Len(RowsOf(store[s3_key[p]])) <
         Len(RowsOf(existing_csv_content[p]))
           + Len(instances_data[p]) + Len(instances_data[q])

\* C8: every summary process_tagged_instances returns has
\* total_processed = tagged_count + untagged_count.
C8_SummaryAddsUp ==
  \A p \in Procs :
    out[p].kind = "pipeline" =>
      out[p].body.summary.total_processed =
        out[p].body.summary.tagged_count + out[p].body.summary.untagged_count

\* C9: an invocation ends as exactly one of error, no_matches, success: error
\* iff no identifier was extracted, no_matches iff identifiers were found and
\* the tagged count is zero, success iff the tagged count is positive, and
\* then a merge was attempted.
C9_ThreeOutcomes ==
  \A p \in Procs :
    out[p].kind = "pipeline" =>
      LET result == out[p].body
      IN /\ result.status \in {"error", "no_matches", "success"}
         /\ result.status = "error" <=> instance_ids[p] = <<>>
         /\ result.status = "no_matches" <=>
              (instance_ids[p] # <<>> /\ result.summary.tagged_count = 0)
         /\ result.status = "success" <=> result.summary.tagged_count > 0
         /\ result.status = "success" =>
              (get_result[p] # "none" /\ put_result[p] # "none")

\* a successful invocation, its merge attempted
C9_Witness ==
  \E p \in Procs :
    /\ out[p].kind = "pipeline" /\ out[p].body.status = "success"
    /\ instance_ids[p] # <<>> /\ out[p].body.summary.tagged_count > 0
    /\ get_result[p] # "none" /\ put_result[p] # "none"

\* the invocation that starts in this step ends in it as error or no_matches
EndsUnmatched(p) ==
  /\ started' = started + 1
  /\ kind'[p] = "pipeline" /\ pc'[p] = "done"
  /\ out'[p].kind = "pipeline"
  /\ out'[p].body.status \in {"error", "no_matches"}

\* C10: an invocation whose outcome is error or no_matches attempts no merge:
\* it neither reads nor writes the store, which is left unchanged.
C10_NoMergeWithoutMatches ==
  [][\A p \in Procs :
       EndsUnmatched(p) =>
         /\ store' = store
         /\ get_result'[p] = "none"
         /\ put_result'[p] = "none"]_vars

\* an invocation without matches, run while an artifact is stored
C10_Witness ==
  \E p \in Procs :
    /\ out[p].kind = "pipeline" /\ out[p].body.status = "no_matches"
    /\ instance_ids[p] # <<>>
    /\ get_result[p] = "none" /\ put_result[p] = "none"
    /\ store # <<>>

\* p is a finished handler invocation
Finished(p) == kind[p] = "pipeline" /\ pc[p] = "done" /\ out[p].kind = "pipeline"

\* C11: reporting failures are soft: with a positive tagged count the outcome
\* is success whether or not the merge succeeded, and the result carries the
\* location s3_report if and only if the write was acknowledged.
C11_ReportingFailuresAreSoft ==
  \A p \in Procs :
    Finished(p) =>
      LET result == out[p].body
      IN /\ result.summary.tagged_count > 0 =>
              (result.status = "success" /\ out[p].statusCode = 200)
         /\ result.status = "success" =>
              /\ ("s3_report" \in DOMAIN result) <=> put_result[p] = "ok"
              /\ "s3_report" \in DOMAIN result =>
                   (result.s3_report = s3_key[p] /\ s3_key[p] \in DOMAIN store)

\* a success whose write failed: no location in the result
C11_Witness ==
  \E p \in Procs :
    /\ Finished(p) /\ out[p].body.status = "success"
    /\ out[p].body.summary.tagged_count > 0
    /\ put_result[p] = "error"
    /\ "s3_report" \notin DOMAIN out[p].body

\* the resource carries the pair adhoc=true
HasPair(instance) ==
  \E i \in 1..Len(Get(instance, "Tags", <<>>)) :
    instance.Tags[i] = [Key |-> s_adhoc, Value |-> s_true]

\* C12: a resource the lookup returned is classified as tagged if and only if
\* its tags contain a pair with key exactly adhoc and value exactly true;
\* every other resource is counted as untagged and nothing of it is kept.
C12_TaggedIffExactPair ==
  \A p \in Procs :
    (Finished(p) /\ describe_result[p] = "ok") =>
      LET result == out[p].body
          kept == {result.tagged_instances[i][s_instance_id] :
                     i \in 1..Len(result.tagged_instances)}
          with == {i \in 1..Len(response[p]) : HasPair(response[p][i])}
      IN /\ \A i \in 1..Len(response[p]) :
              (response[p][i].InstanceId \in kept) <=> i \in with
         /\ result.summary.tagged_count = Cardinality(with)
         /\ result.summary.untagged_count = Len(response[p]) - Cardinality(with)

\* account identifiers a merge may be given: two accounts, the default of
\* store_to_s3_csv, and None
AccountIds == {s_account, <<49, 50>>, s_unknown, NoneVal}

\* C13: the location is a deterministic, injective function of account and
\* calendar date: merges that differ in account or date never address the
\* same object, and two merges for the same account on the same day address
\* the same object, also when the account identifier could not be retrieved
\* (every handler invocation of the model runs in the one account s_account).
C13_KeyIsInjective ==
  /\ \A a, b \in AccountIds : \A d, e \in Days :
       (S3Key(a, d) = S3Key(b, e)) <=> (a = b /\ d = e)
  /\ \A p, q \in Procs :
       (kind[p] = "pipeline" /\ kind[q] = "pipeline"
          /\ timestamp[p] # 0 /\ timestamp[q] # 0) =>
         ((s3_key[p] = s3_key[q]) <=> (timestamp[p] = timestamp[q]))

\* how many of the rows hold the identifier in a cell
Occurrences(id, rows) ==
  Cardinality({i \in 1..Len(rows) : id \in Range(rows[i])})

\* C14: merge is not idempotent: every successful merge into an existing
\* artifact adds one row per record of the batch, so that a batch merged twice
\* has each of its rows stored twice and the row count grows by the batch
\* size each time.
C14_MergeNotIdempotent ==
  [][\A p \in Procs :
       (Merges(p) /\ s3_key[p] \in DOMAIN store) =>
         LET before == RowsOf(store[s3_key[p]])
             after == RowsOf(store'[s3_key[p]])
         IN /\ Len(after) - Len(before) = Len(instances_data[p])
            /\ \A i \in 1..Len(instances_data[p]) :
                 Occurrences(instances_data[p][i][s_instance_id], after) =
                   Occurrences(instances_data[p][i][s_instance_id], before) + 1]_vars

\* C15: nothing is fatal: whatever the event and whichever of the identity
\* lookup, the resource lookup, the store read and the store write fail, the
\* handler returns a complete response whose status is error, no_matches or
\* success; the status code 500 is never produced.
C15_NothingIsFatal ==
  \A p \in Procs :
    /\ out[p].kind \in {"none", "direct", "pipeline"}
    /\ (kind[p] = "pipeline" /\ pc[p] = "done") =>
         /\ out[p].kind = "pipeline"
         /\ DOMAIN out[p] = {"kind", "statusCode", "body"}
         /\ {"status", "summary", "tagged_instances"} \subseteq DOMAIN out[p].body
         /\ out[p].body.status \in {"error", "no_matches", "success"}
         /\ out[p].statusCode \in {200, 400, 404}

\* a complete response after the identity lookup, the store read and the
\* store write have all failed
C15_Witness ==
  \E p \in Procs :
    /\ Finished(p) /\ out[p].body.status = "success"
    /\ out[p].body.account_id = NoneVal
    /\ get_result[p] = "error" /\ put_result[p] = "error"
    /\ out[p].statusCode = 200

\* statuses process_ec2_launch_event does not produce
OtherStatuses == {"", "failed", "Success", "ok", "timeout"}

\* C16: the handler maps the outcome to the status code: error to 400,
\* no_matches to 404, success to 200, and any other status to 500.
C16_StatusCodeMapping ==
  /\ HandlerResponse([status |-> "error"]).statusCode = 400
  /\ HandlerResponse([status |-> "no_matches"]).statusCode = 404
  /\ HandlerResponse([status |-> "success"]).statusCode = 200
  /\ \A other \in OtherStatuses : HandlerResponse([status |-> other]).statusCode = 500
  /\ \A p \in Procs :
       Finished(p) =>
         out[p].statusCode =
           (CASE out[p].body.status = "error" -> 400
              [] out[p].body.status = "no_matches" -> 404
              [] out[p].body.status = "success" -> 200
              [] OTHER -> 500)

\* a response with each of the three codes has been returned: here, 404
C16_Witness ==
  \E p \in Procs :
    /\ Finished(p)
    /\ out[p].body.status = "no_matches" /\ out[p].statusCode = 404
    /\ store # <<>>

\* the fields of instance_details other than the tags
DetailFields ==
  {s_instance_id, s_private_ip, s_public_ip, s_instance_type, s_state,
   s_launch_time, s_availability_zone, s_vpc_id, s_subnet_id,
   s_security_groups, s_key_name}

\* the name is that of a tag column
IsTagColumn(name) ==
  Len(name) >= Len(s_tag_) /\ SubSeq(name, 1, Len(s_tag_)) = s_tag_

\* row is the flat form of details, with the given columns beside those of
\* the details and the tags: the groups one string, no tags mapping, one
\* column tag_<key> with the value for each tag and no other tag column
IsFlatFormOf(row, details, others) ==
  /\ DOMAIN row = DetailFields \cup {s_tag_ \o k : k \in DOMAIN details[s_tags]}
                     \cup others
  /\ s_tags \notin DOMAIN row
  /\ row[s_security_groups] = Join(s_CommaSpace, details[s_security_groups])
  /\ \A n \in DetailFields \ {s_security_groups} : row[n] = details[n]
  /\ \A k \in DOMAIN details[s_tags] : row[s_tag_ \o k] = details[s_tags][k]
  /\ {n \in DOMAIN row : IsTagColumn(n)} = {s_tag_ \o k : k \in DOMAIN details[s_tags]}

\* C17: flattening is total: every row built for the report, by the merge and
\* by the converter of a saved response, has security_groups as one delimited
\* string, no nested tags mapping, and exactly one column tag_<key> holding
\* the value for each tag of the resource and none for a tag it lacks.
C17_FlatteningIsTotal ==
  \A p \in Procs :
    /\ instances_data[p] # <<>> =>
         /\ Len(instances_data[p]) = Len(response_data[p].tagged_instances)
         /\ \A i \in 1..Len(instances_data[p]) :
              IsFlatFormOf(instances_data[p][i],
                           response_data[p].tagged_instances[i], {s_processed_at})
    /\ Finished(p) =>
         LET rows == LoadJsonFile(out[p].body)
         IN /\ Len(rows) = Len(out[p].body.tagged_instances)
            /\ \A i \in 1..Len(rows) :
                 IsFlatFormOf(rows[i], out[p].body.tagged_instances[i], {})

\* rows built from resources with different tags: one has tag_env, one not
C17_Witness ==
  \E p \in Procs :
    /\ Finished(p)
    /\ \E i, j \in 1..Len(instances_data[p]) :
         /\ s_tag_ \o s_env \in DOMAIN instances_data[p][i]
         /\ s_tag_ \o s_env \notin DOMAIN instances_data[p][j]
         /\ instances_data[p][i][s_security_groups] = s_web \o s_CommaSpace \o s_db

\* the envelope has every key of the path detail.responseElements.instancesSet.items
HasPath(envelope) ==
  /\ "detail" \in DOMAIN envelope
  /\ "responseElements" \in DOMAIN envelope.detail
  /\ "instancesSet" \in DOMAIN envelope.detail.responseElements
  /\ "items" \in DOMAIN envelope.detail.responseElements.instancesSet

LookupFails(p) ==
  started' = started + 1 /\ kind'[p] = "pipeline" /\ describe_result'[p] = "error"

\* C19: a failure of the resource lookup is recovered as an empty
\* classification: no tagged rows, a summary of zeros, outcome no_matches, and
\* no merge attempted.
C19_LookupFailureIsEmpty ==
  [][\A p \in Procs :
       LookupFails(p) =>
         /\ pc'[p] = "done" /\ out'[p].kind = "pipeline"
         /\ out'[p].body.status = "no_matches" /\ out'[p].statusCode = 404
         /\ out'[p].body.tagged_instances = <<>>
         /\ out'[p].body.summary =
              [total_processed |-> 0, tagged_count |-> 0, untagged_count |-> 0]
         /\ get_result'[p] = "none" /\ put_result'[p] = "none"
         /\ store' = store]_vars

\* a failed lookup for identifiers of tagged instances, an artifact being stored
C19_Witness ==
  \E p \in Procs :
    /\ Finished(p) /\ describe_result[p] = "error"
    /\ instance_ids[p] = <<s_i1, s_i2, s_i3>>
    /\ out[p].body.status = "no_matches"
    /\ store # <<>>

\* C20: within one merge the write is the only step that changes the store,
\* it happens at most once and it is the last step: whenever the store
\* changes, one merge goes from its write step to its end with its first
\* acknowledged put, and only the object at its key differs; no step before
\* that changes the store.
C20_WriteIsLastAndOnlyMutation ==
  [][/\ store' # store =>
          (\E p \in Procs :
             /\ pc[p] = "write" /\ pc'[p] = "done"
             /\ put_result[p] = "none" /\ put_result'[p] = "ok"
             /\ DOMAIN store' = DOMAIN store \cup {s3_key[p]}
             /\ \A k \in DOMAIN store : k # s3_key[p] => store'[k] = store[k])
      /\ \A p \in Procs :
           (pc'[p] # pc[p] /\ pc'[p] \in {"load", "write"}) =>
             store' = store]_vars

\* a merge that found the artifact and has written: the artifact now differs
\* from what the load step read
C20_Witness ==
  \E p \in Procs :
    /\ pc[p] = "done" /\ get_result[p] = "found" /\ put_result[p] = "ok"
    /\ instances_data[p] # <<>>
    /\ store[s3_key[p]] # existing_csv_content[p]

\* C22: the number of tagged rows process_tagged_instances returns (the
\* entries of tagged_instances, one row each in the merge) equals
\* summary.tagged_count, also when the lookup returns one identifier twice.
C22_RowsEqualTaggedCount ==
  \A p \in Procs :
    (Finished(p) /\ out[p].body.status = "success") =>
      /\ Len(out[p].body.tagged_instances) = out[p].body.summary.tagged_count
      /\ Len(instances_data[p]) = out[p].body.summary.tagged_count

\* the calendar date in a daily key: the ten characters before ".csv"
KeyDate(key) == SubSeq(key, Len(key) - Len(s_csv) - 9, Len(key) - Len(s_csv))

\* the calendar date of an ISO timestamp: its first ten characters
StampDate(stamp) == SubSeq(stamp, 1, 10)

\* C23: every row a merge adds to the artifact of calendar date D carries a
\* processed_at whose date is D: the clock readings that stamp the rows and
\* the later reading that gives the key never fall on different days.
C23_StampDateIsKeyDate ==
  \A p \in Procs :
    (pc[p] = "done" /\ put_result[p] = "ok") =>
      \A i \in 1..Len(instances_data[p]) :
        StampDate(instances_data[p][i][s_processed_at]) = KeyDate(s3_key[p])

\* the methods of the workflow, in its order
WorkflowOrder == <<"fetch_instance_details", "get_token", "send_payload", "get_status">>

\* C21: process_instance_registration runs fetch_instance_details, get_token,
\* send_payload, get_status strictly in that order and stops at the first of
\* get_token / send_payload that fails, returning None: send_payload is only
\* run after a get_token that returned True, get_status only after a
\* send_payload that returned True, and a workflow that ended before
\* get_status returned None.
C21_WorkflowOrder ==
  /\ Len(wlog) <= Len(WorkflowOrder)
  /\ \A i \in 1..Len(wlog) :
       /\ wlog[i].method = WorkflowOrder[i]
       /\ i > 2 => wlog[i - 1].ok
  /\ wresult.returned =>
       /\ wpc = "idle"
       /\ Len(wlog) >= 2
       /\ Len(wlog) < Len(WorkflowOrder) =>
            (~wlog[Len(wlog)].ok /\ wresult.value = NoneVal)
  /\ (~wresult.returned /\ wlog # <<>>) =>
       (wpc = WorkflowOrder[Len(wlog) + 1] /\ wlog[Len(wlog)].ok)

\* a workflow stopped at a failed send_payload after a successful get_token,
\* and returned None
C21_Witness ==
  /\ wresult.returned
  /\ Len(wlog) = 3
  /\ wlog[2].ok
  /\ ~wlog[3].ok
  /\ wresult.value = NoneVal

\* C24: after any calls with any outcomes, registration_id is set (holds a
\* usable id) only if token is set and instance_data is set (neither is None).
C24_RegistrationNeedsTokenAndData ==
  Truthy(registration_id) => (token # NoneVal /\ instance_data # NoneVal)

\* C24, second part: a send_payload that issues a request has a token and
\* instance data; a get_status that issues a request has a token and a
\* registration_id.
C24_NoRequestWithout ==
  [][(requests' # requests /\ last'.method = "send_payload"
        => (Truthy(token) /\ Truthy(instance_data)))
     /\ (requests' # requests /\ last'.method = "get_status"
        => (Truthy(token) /\ Truthy(registration_id)))]_all_vars


====
